---- MODULE Spec2Model ----
(***************************************************************************)
(* ProgressPill (src/ProgressPill.jsx): a React function component with    *)
(* three props (dayNumber, distance, progress), a requestAnimationFrame    *)
(* loop that eases the marker toward the progress, a colour crossfade on   *)
(* a day decrease, and a label that fades out and in on a day change.      *)
(*                                                                         *)
(* Numbers.  The real quantities of the component (progress, displayed,    *)
(* target, easing factors) are fixed-point integers in millionths: ONE     *)
(* stands for 1.0.  The crossfade's fade is kept as the double it is, for  *)
(* its comparison with 1 turns on the last bit.  Times are whole           *)
(* milliseconds.                                                           *)
(*                                                                         *)
(* Scheduling.  React runs the function body and the layout effects of a   *)
(* render in one step (Render) and the passive effects (useEffect) of      *)
(* that render in a later step (FlushEffects); timer and animation-frame   *)
(* callbacks are separate browser tasks and may run between the two.       *)
(* React always flushes the pending passive effects before it renders      *)
(* again.                                                                  *)
(***************************************************************************)
EXTENDS Integers, Sequences, FiniteSets, TLC

\* ------------------------------------------------------------ bounds
\* Day numbers supplied by the host are 1..MaxDay.
MaxDay == 2
\* Prop updates (day, distance) in one behaviour of the label.
MaxRenders == 3
\* Prop updates (day, progress) in one behaviour of the whole component.
MaxMoves == 2
\* Animation frames in one behaviour of the whole component.
MaxTicks == 3
\* Prop updates and frames in one behaviour of the crossfade.
MaxFadeMoves == 1
MaxFadeTicks == 12
\* Prop updates and frames in one behaviour of the easing.
MaxEaseMoves == 1
MaxEaseTicks == 40
\* Frames in one run of the end-to-end scenario.
MaxScenTicks == 18
\* Prop updates and frames in one behaviour that ends with an unmount.
MaxTearMoves == 2
MaxTearTicks == 3
\* Sample table lengths, prop updates and frames in one behaviour of the lookup.
MaxPts == 4
MaxLookupMoves == 1
MaxLookupTicks == 16
\* Prop updates and frames in one behaviour of the first movement.
MaxStartMoves == 2
MaxStartTicks == 3
\* Progress values 0, 1/MaxGrid, ..., 1 and frames in one behaviour of the colours.
MaxGrid == 1000
MaxColorTicks == 14

\* ------------------------------------------------- program constants
ONE == 1000 * 1000
\* setTimeout(..., 240): the exit phase
EXIT_MS == 240
\* setTimeout(..., 280): the enter phase
ENTER_MS == 280
\* const EASE = 12
EASE == 12
\* Math.min((now - lastTime) / 1000, 0.05), in ms
DT_CAP_MS == 50
\* lastTime ? ... : 0.016, in ms
DT_FIRST_MS == 16
\* if (diff < -0.3)
SNAP_DIFF == 300000
\* if (Math.abs(diff) < 0.001)
SETTLE_DIFF == 1000
\* if (progress > 0.01) hasStartedRef.current = true
START_PROGRESS == 10000
\* const halfTrans = 0.035
HALF_TRANS == 35000

Days == 1..MaxDay
Dists == {"152.7km", "98.3km"}
\* progress values the host supplies around a day change (0.05, 0.95)
ProgsBack == {50000, 950000}

TRACK_RGB == << <<249, 174, 119>>, <<236, 203, 96>>, <<146, 191, 219>>, <<196, 185, 224>> >>
BG_RGB == << <<255, 231, 206>>, <<250, 238, 198>>, <<225, 236, 235>>, <<240, 234, 236>> >>
boundaries == <<250000, 500000, 750000>>

\* ------------------------------------------------------- arithmetic
Min(a, b) == IF a < b THEN a ELSE b
Max(a, b) == IF a > b THEN a ELSE b
Abs(a) == IF a < 0 THEN -a ELSE a

\* floor(a * b / ONE) for 0 <= a, b, computed in two halves so that no
\* intermediate product leaves 32 bits.
MulFix(a, b) ==
    LET ah == a \div 1000
        al == a % 1000
    IN  ((ah * b) + ((al * b) \div 1000)) \div 1000

\* a signed first factor, rounded toward zero
MulSigned(a, b) == IF a < 0 THEN -MulFix(-a, b) ELSE MulFix(a, b)

\* Math.exp(-x) for x >= 0 in millionths, by its power series
\* sum_k (-x)^k / k!, 14 terms (exact to a few millionths for x <= 0.6).
RECURSIVE ExpSeries(_, _, _, _)
ExpSeries(x, k, term, acc) ==
    IF k > 14 \/ term = 0 THEN acc
    ELSE LET next == MulFix(term, x) \div k
         IN  ExpSeries(x, k + 1, next,
                       IF k % 2 = 1 THEN acc - next ELSE acc + next)

ExpNeg(x) == ExpSeries(x, 1, ONE, ONE)

\* variant: half the easing rate
EaseStep_Half(dtMs) == ONE - ExpNeg((EASE \div 2) * 1000 * dtMs)

\* const step = 1 - Math.exp(-EASE * dt), dt given in ms
EaseStep(dtMs) == ONE - ExpNeg(EASE * 1000 * dtMs)

\* Math.round(x / ONE) for x >= 0 in millionths
RoundFix(x) == (x + (ONE \div 2)) \div ONE

\* ------------------------------------------ doubles (the fade only)
\* The one value whose last bit decides a branch, the crossfade's fade
\* (compared with 1), is kept as the IEEE-754 double of the code: the pair
\* <<hi, lo>> is the double (hi * P30 + lo) * 2^-60, for doubles in [2^-8, 2).
P30 == 1024 * 1024 * 1024
D0 == <<0, 0>>
D1 == <<P30, 0>>
LessD(a, b) == a[1] < b[1] \/ (a[1] = b[1] /\ a[2] < b[2])

\* the unit in the last place of a double with high part hi, in units of 2^-60
RECURSIVE UlpD(_, _, _)
UlpD(hi, q, top) == IF hi >= top \/ q = 1 THEN q ELSE UlpD(hi, q \div 2, top \div 2)

\* a + b as IEEE-754 computes it: the exact sum, rounded to 53 significant
\* bits, ties to the even mantissa
AddD(a, b) ==
    LET lo0  == a[2] + b[2]
        hi   == a[1] + b[1] + (IF lo0 >= P30 THEN 1 ELSE 0)
        lo   == lo0 % P30
        q    == UlpD(hi, 256, P30)
        r    == lo % q
        base == lo - r
        up   == 2 * r > q \/ (2 * r = q /\ (base \div q) % 2 = 1)
        lo1  == IF up THEN base + q ELSE base
    IN  IF lo1 >= P30 THEN <<hi + 1, lo1 - P30>> ELSE <<hi, lo1>>

\* dt * 2.5 for dt = ms / 1000: the double the two operations give
\* (0.016 * 2.5 = 0x1.47ae147ae147bp-5, 0.04 * 2.5 = 0x1.999999999999ap-4, ...)
DtTimes2p5(ms) ==
    CASE ms = 8  -> <<21474836, 515396076>>
      [] ms = 10 -> <<26843545, 644245096>>
      [] ms = 16 -> <<42949672, 1030792152>>
      [] ms = 20 -> <<53687091, 214748368>>
      [] ms = 25 -> <<67108864, 0>>
      [] ms = 32 -> <<85899345, 987842480>>
      [] ms = 40 -> <<107374182, 429496736>>
      [] ms = 48 -> <<128849018, 944892800>>
      [] ms = 50 -> <<134217728, 0>>

\* a fade as a fixed-point number in millionths (for the colour blends):
\* hi * 10^6 / 2^30 = hi * 15625 / 2^24, rounded down
FadeMicro(f) ==
    (((f[1] \div 16384) * 15625) + (((f[1] % 16384) * 15625) \div 16384)) \div 1024

\* ------------------------------------------------------ lerpColors
\* palette[b].map((v, k) => Math.round(v + (palette[b + 1][k] - v) * s))
BlendChannel(v, w, s) ==
    IF w >= v THEN RoundFix(v * ONE + (w - v) * s)
    ELSE RoundFix(v * ONE - (v - w) * s)

BlendRGB(c1, c2, s) ==
    << BlendChannel(c1[1], c2[1], s),
       BlendChannel(c1[2], c2[2], s),
       BlendChannel(c1[3], c2[3], s) >>

\* variant: a linear blend in the window
Smoothstep_Linear(t, bd) ==
    ((t - (bd - HALF_TRANS)) * 1000) \div ((2 * HALF_TRANS) \div 1000)

\* const f = (t - (bd - halfTrans)) / (2 * halfTrans); s = f * f * (3 - 2 * f)
Smoothstep(t, bd) ==
    LET f  == ((t - (bd - HALF_TRANS)) * 1000) \div ((2 * HALF_TRANS) \div 1000)
        f2 == MulFix(f, f)
        f3 == MulFix(f2, f)
    IN  3 * f2 - 2 * f3

\* the for loop over the three boundaries, c carried from one to the next
RECURSIVE LerpLoop(_, _, _, _)
LerpLoop(palette, t, b, c) ==
    IF b > Len(boundaries) THEN c
    ELSE LET bd == boundaries[b]
             c2 == IF t > bd + HALF_TRANS THEN palette[b + 1]
                   ELSE IF t > bd - HALF_TRANS
                        THEN BlendRGB(palette[b], palette[b + 1], Smoothstep(t, bd))
                        ELSE c
         IN  LerpLoop(palette, t, b + 1, c2)

lerpColors(palette, t) == LerpLoop(palette, t, 1, palette[1])

\* trackColor of the draw effect during a crossfade:
\* Math.round(trans.fromColor[k] * (1 - f) + targetColor[k] * f)
CrossfadeRGB(fromColor, targetColor, f) ==
    << RoundFix(fromColor[1] * (ONE - f) + targetColor[1] * f),
       RoundFix(fromColor[2] * (ONE - f) + targetColor[2] * f),
       RoundFix(fromColor[3] * (ONE - f) + targetColor[3] * f) >>

\* ------------------------------------------------------------ state
VARIABLES
    dayNumber, distance, progress,  \* the props of the last render
    displayRef,                     \* displayRef.current
    targetRef,                      \* targetRef.current
    hasStartedRef,                  \* hasStartedRef.current
    prevDayNumRef,                  \* prevDayNumRef.current
    dayTransitionRef,               \* dayTransitionRef.current ({fromColor, fade} or null)
    textPhase, displayDay, displayDist, \* useState of the label
    prevDayRef,                     \* prevDayRef.current
    timers,                         \* pending setTimeout callbacks
    pend,                           \* passive effects of the last render not yet run
    canvas,                         \* what the draw effect last left on the canvas
    lastTime,                       \* tick's lastTime: 0 until the first frame
    sinceTick,                      \* ms since the last frame (now - lastTime)
    nRenders, nTicks,               \* observers: prop updates and frames so far
    sinceChange,                    \* observer: ms since a label cycle began from idle, -1 if none
    fadeDt,                         \* observer: ms of dt ticked since the crossfade was created
    mounted,                        \* the component is mounted
    rafRef,                         \* rafRef.current: the handle stored last
    rafPending,                     \* handles of the frame callbacks requested and not yet run
    nPts,                           \* pointsRef.current.length
    dot,                            \* the marker: dotRef.current and the attributes set on it
    lastOp,                         \* observer: the step taken last
    lastDiff                        \* observer: target - current as the last frame found them

vars == << dayNumber, distance, progress, displayRef, targetRef, hasStartedRef,
           prevDayNumRef, dayTransitionRef, textPhase, displayDay, displayDist,
           prevDayRef, timers, pend, canvas, lastTime, sinceTick,
           nRenders, nTicks, sinceChange, fadeDt, mounted, rafRef, rafPending,
           nPts, dot, lastOp, lastDiff >>

props == << dayNumber, distance, progress >>

\* dayTransitionRef.current = null
NoTrans == [active |-> FALSE, fromColor |-> <<0, 0, 0>>, fade |-> D0]
NoPend == [back |-> FALSE, text |-> FALSE, dist |-> FALSE]
Cleared == [drawn |-> FALSE, color |-> <<0, 0, 0>>, upTo |-> 0]

ExitTimers(ts) == {t \in ts : t.kind = "exit"}
EnterTimers(ts) == {t \in ts : t.kind = "enter"}
Due(ts) == {t \in ts : t.left = 0}

\* what the effects and the timer callbacks read and write
Comp ==
    [displayRef |-> displayRef, targetRef |-> targetRef,
     prevDayNumRef |-> prevDayNumRef, dayTransitionRef |-> dayTransitionRef,
     textPhase |-> textPhase, displayDay |-> displayDay,
     displayDist |-> displayDist, prevDayRef |-> prevDayRef,
     timers |-> timers, sinceChange |-> sinceChange, fadeDt |-> fadeDt]

Commit(c) ==
    /\ displayRef' = c.displayRef
    /\ targetRef' = c.targetRef
    /\ prevDayNumRef' = c.prevDayNumRef
    /\ dayTransitionRef' = c.dayTransitionRef
    /\ textPhase' = c.textPhase
    /\ displayDay' = c.displayDay
    /\ displayDist' = c.displayDist
    /\ prevDayRef' = c.prevDayRef
    /\ timers' = c.timers
    /\ sinceChange' = c.sinceChange
    /\ fadeDt' = c.fadeDt

\* ------------------------------------------------------ the effects
\* variant: a day decrease that leaves displayed where it was
DayBackwardEffect_KeepDisplayed(c) ==
    IF dayNumber # c.prevDayNumRef
    THEN IF dayNumber < c.prevDayNumRef
         THEN [c EXCEPT !.targetRef = progress,
                        !.dayTransitionRef =
                            [active |-> TRUE,
                             fromColor |-> lerpColors(TRACK_RGB, 0),
                             fade |-> D0],
                        !.fadeDt = 0,
                        !.prevDayNumRef = dayNumber]
         ELSE [c EXCEPT !.prevDayNumRef = dayNumber]
    ELSE c

\* variant: every day change, up or down, counts as a step back
DayBackwardEffect_AnyChange(c) ==
    IF dayNumber # c.prevDayNumRef
    THEN [c EXCEPT !.displayRef = progress,
                   !.targetRef = progress,
                   !.dayTransitionRef =
                       [active |-> TRUE,
                        fromColor |-> lerpColors(TRACK_RGB, 0),
                        fade |-> D0],
                   !.fadeDt = 0,
                   !.prevDayNumRef = dayNumber]
    ELSE c

\* variant: the observed day is recorded on a step back only
DayBackwardEffect_ForgetUp(c) ==
    IF dayNumber < c.prevDayNumRef
    THEN [c EXCEPT !.displayRef = progress,
                   !.targetRef = progress,
                   !.dayTransitionRef =
                       [active |-> TRUE,
                        fromColor |-> lerpColors(TRACK_RGB, 0),
                        fade |-> D0],
                   !.fadeDt = 0,
                   !.prevDayNumRef = dayNumber]
    ELSE c

\* variant: a step forward snaps displayed too
DayBackwardEffect_SnapOnUp(c) ==
    IF dayNumber # c.prevDayNumRef
    THEN IF dayNumber < c.prevDayNumRef
         THEN [c EXCEPT !.displayRef = progress,
                        !.targetRef = progress,
                        !.dayTransitionRef =
                            [active |-> TRUE,
                             fromColor |-> lerpColors(TRACK_RGB, 0),
                             fade |-> D0],
                        !.fadeDt = 0,
                        !.prevDayNumRef = dayNumber]
         ELSE [c EXCEPT !.displayRef = progress, !.prevDayNumRef = dayNumber]
    ELSE c

\* useEffect(() => { if (dayNumber !== prevDayNumRef.current) ... }, [dayNumber, progress])
DayBackwardEffect(c) ==
    IF dayNumber # c.prevDayNumRef
    THEN IF dayNumber < c.prevDayNumRef
         THEN [c EXCEPT !.displayRef = progress,
                        !.targetRef = progress,
                        !.dayTransitionRef =
                            [active |-> TRUE,
                             fromColor |-> lerpColors(TRACK_RGB, 0),
                             fade |-> D0],
                        !.fadeDt = 0,
                        !.prevDayNumRef = dayNumber]
         ELSE [c EXCEPT !.prevDayNumRef = dayNumber]
    ELSE c

\* return () => clearTimeout(exitTimer): the cleanup of the text effect's last run
TextCleanup(c) == [c EXCEPT !.timers = @ \ ExitTimers(@)]

\* the text transition effect, deps [dayNumber, distance]
TextEffect(c) ==
    IF dayNumber = c.prevDayRef THEN c
    ELSE [c EXCEPT !.prevDayRef = dayNumber,
                   !.textPhase = "exiting",
                   !.timers = @ \cup {[kind |-> "exit", left |-> EXIT_MS,
                                       day |-> dayNumber, dist |-> distance]},
                   !.sinceChange = IF c.textPhase = "idle" THEN 0 ELSE -1]

\* variant: a distance effect that writes nothing
DistEffect_None(c, closPhase, closDay) == c

\* the distance effect; textPhase and displayDay are those of the render
\* that created the effect (its closure)
DistEffect(c, closPhase, closDay) ==
    IF closPhase = "idle" /\ dayNumber = closDay
    THEN [c EXCEPT !.displayDist = distance]
    ELSE c

\* React runs the cleanups of the effects whose deps changed, then the
\* effects in the order of their definition.
RunEffects(c, fx, closPhase, closDay) ==
    LET c1 == IF fx.text THEN TextCleanup(c) ELSE c
        c2 == IF fx.back THEN DayBackwardEffect(c1) ELSE c1
        c3 == IF fx.text THEN TextEffect(c2) ELSE c2
    IN  IF fx.dist THEN DistEffect(c3, closPhase, closDay) ELSE c3

\* A state update re-renders with the same props: only the distance effect
\* has state among its deps ([distance, textPhase, dayNumber, displayDay]).
Rerender(c) ==
    [back |-> FALSE, text |-> FALSE,
     dist |-> (c.textPhase # textPhase \/ c.displayDay # displayDay)]

\* ------------------------------------------------ the draw effect
\* Math.floor(Math.min(progress, 0.998) * (pts.length - 1)), computed only
\* when progress >= 0.003
TrackIndex(p, len) == (Min(p, 998000) * (len - 1)) \div ONE

\* useLayoutEffect(..., [progress, ready]): the stroke left on the canvas
Draw(p, trans, len) ==
    IF p < 3000 THEN Cleared
    ELSE LET t == Min(p, 998000)
             targetColor == lerpColors(TRACK_RGB, t)
         IN  [drawn |-> TRUE,
              color |-> IF trans.active /\ LessD(trans.fade, D1)
                        THEN CrossfadeRGB(trans.fromColor, targetColor,
                                          FadeMicro(trans.fade))
                        ELSE targetColor,
              upTo |-> t,
              idx |-> TrackIndex(p, len)]

\* ------------------------------------------------------ the marker
\* variant: a marker lookup without the lower clamp
DotIndex_NoFloor(displayed, len) ==
    LET p == Min(displayed, 998000)
    IN  Min((p * (len - 1)) \div ONE, len - 1)

\* const p = Math.min(Math.max(displayRef.current, 0), 0.998);
\* const idx = Math.min(Math.floor(p * (pts.length - 1)), pts.length - 1)
DotIndex(displayed, len) ==
    LET p == Min(Max(displayed, 0), 998000)
    IN  Min((p * (len - 1)) \div ONE, len - 1)

\* pts[idx].t = idx / n for the n + 1 points sampled (line 148); with one
\* point n is 0 and t is NaN, which lerpColors treats as it treats 0
PtT(idx, len) == IF len = 1 THEN 0 ELSE (idx * ONE) \div (len - 1)

\* the circle as rendered (lines 342-343): at pts[0], in the first colours
DotAtStart(isShown) ==
    [shown |-> isShown, idx |-> 0, fill |-> BG_RGB[1], stroke |-> TRACK_RGB[1]]

\* lines 231-261: the attributes the tick sets on the marker; trans is the
\* crossfade as the tick left it
DotUpdate(d, displayed, trans, len, started) ==
    IF ~d.shown \/ len = 0 \/ ~started THEN d
    ELSE LET idx == DotIndex(displayed, len)
             t   == PtT(idx, len)
         IN  IF trans.active /\ LessD(trans.fade, D1)
             THEN [d EXCEPT !.idx = idx,
                            !.fill = CrossfadeRGB(lerpColors(BG_RGB, 0),
                                                  lerpColors(BG_RGB, t),
                                                  FadeMicro(trans.fade)),
                            !.stroke = CrossfadeRGB(trans.fromColor,
                                                    lerpColors(TRACK_RGB, t),
                                                    FadeMicro(trans.fade))]
             ELSE [d EXCEPT !.idx = idx,
                            !.fill = lerpColors(BG_RGB, t),
                            !.stroke = lerpColors(TRACK_RGB, t)]

\* ----------------------------------------------------- the frame loop
\* variant: the handle of the new request is not stored
RequestFrame_NotStored(pending, fired, fresh) ==
    [rafRef |-> fired, rafPending |-> (pending \ {fired}) \cup {fresh}]

\* rafRef.current = requestAnimationFrame(tick): the callback fired is no
\* longer pending, a new one is, and its handle is stored
RequestFrame(pending, fired, fresh) ==
    [rafRef |-> fresh, rafPending |-> (pending \ {fired}) \cup {fresh}]

\* if (rafRef.current) cancelAnimationFrame(rafRef.current)
CancelFrame(pending, handle) ==
    IF handle # 0 THEN pending \ {handle} ELSE pending

\* variant: the marker starts at the threshold of the track draw
Started_AtDraw(before, p) == before \/ p >= 3000

\* if (progress > 0.01) hasStartedRef.current = true
Started(before, p) == before \/ p > START_PROGRESS

\* ------------------------------------------------------------- Init
\* The component after its mount with the props (d, x, p): the mount effects
\* have run (none changes anything: prevDayNumRef and prevDayRef are
\* dayNumber, the label is idle), ready is true and the first animation
\* frame is requested.
InitSampled(d, x, p, len) ==
    /\ dayNumber = d /\ distance = x /\ progress = p
    /\ displayRef = 0
    /\ targetRef = p
    /\ hasStartedRef = Started(FALSE, p)
    /\ prevDayNumRef = d
    /\ dayTransitionRef = NoTrans
    /\ textPhase = "idle" /\ displayDay = d /\ displayDist = x
    /\ prevDayRef = d
    /\ timers = {}
    /\ pend = NoPend
    /\ canvas = Draw(p, NoTrans, len)
    /\ lastTime = 0
    /\ sinceTick = 0
    /\ nRenders = 0 /\ nTicks = 0
    /\ sinceChange = -1
    /\ fadeDt = 0
    /\ mounted = TRUE
    /\ rafRef = 1
    /\ rafPending = {1}
    /\ nPts = len
    /\ dot = DotAtStart(Started(FALSE, p))
    /\ lastOp = "mount"
    /\ lastDiff = 0

\* the pill's path is 502.2 px long: n = Math.ceil(502.2 / 1.4) = 359, and
\* the loop of line 147 samples n + 1 points
N_PTS == 360

InitWith(d, x, p) == InitSampled(d, x, p, N_PTS)

\* ---------------------------------------------------------- actions
\* The host supplies new props: the function body runs (lines 103 and 128),
\* React commits, the draw effect runs if progress changed, and the passive
\* effects whose deps changed are left pending.
Render(d, x, p) ==
    /\ mounted
    /\ pend = NoPend
    /\ << d, x, p >> # props
    /\ dayNumber' = d /\ distance' = x /\ progress' = p
    /\ hasStartedRef' = Started(hasStartedRef, p)
    /\ targetRef' = p
    /\ canvas' = IF p # progress THEN Draw(p, dayTransitionRef, nPts) ELSE canvas
    /\ pend' = [back |-> (d # dayNumber \/ p # progress),
                text |-> (d # dayNumber \/ x # distance),
                dist |-> (d # dayNumber \/ x # distance)]
    /\ nRenders' = nRenders + 1
    /\ sinceChange' = -1
    /\ lastOp' = "render"
    /\ dot' = IF hasStartedRef' THEN [dot EXCEPT !.shown = TRUE] ELSE dot
    /\ UNCHANGED << displayRef, prevDayNumRef, dayTransitionRef, textPhase,
                    displayDay, displayDist, prevDayRef, timers, lastTime,
                    sinceTick, nTicks, fadeDt, mounted, rafRef, rafPending,
                    nPts, lastDiff >>

\* React runs the pending passive effects; the state they set re-renders.
FlushEffects ==
    /\ pend # NoPend
    /\ LET c == RunEffects(Comp, pend, textPhase, displayDay)
       IN  Commit(c) /\ pend' = Rerender(c)
    /\ lastOp' = "effects"
    /\ UNCHANGED << dayNumber, distance, progress, hasStartedRef, canvas,
                    lastTime, sinceTick, nRenders, nTicks, mounted, rafRef,
                    rafPending, nPts, dot, lastDiff >>

\* the callback of exitTimer (lines 280-286), with the day and distance of
\* the render whose effect set the timer
ExitCallback(c, tm) ==
    [c EXCEPT !.displayDay = tm.day,
              !.displayDist = tm.dist,
              !.textPhase = "entering",
              !.timers = (@ \ {tm}) \cup
                         {[kind |-> "enter", left |-> ENTER_MS, day |-> 0, dist |-> ""]}]

\* the callback of enterTimer (line 284)
EnterCallback(c, tm) ==
    [c EXCEPT !.textPhase = "idle", !.timers = @ \ {tm}]

\* React drops a state update of a component that is no longer mounted
Dropped(c) ==
    [c EXCEPT !.textPhase = textPhase, !.displayDay = displayDay,
              !.displayDist = displayDist]

\* A timer callback sets state; before React renders that state it runs the
\* passive effects still pending from the last render, whose closures hold
\* the state of that render and whose own state updates are applied last.
AfterCallback(c, op) ==
    LET c0 == IF mounted THEN c ELSE Dropped(c)
        c1 == IF pend # NoPend THEN RunEffects(c0, pend, textPhase, displayDay) ELSE c0
    IN  /\ Commit(c1)
        /\ pend' = Rerender(c1)
        /\ lastOp' = op
        /\ UNCHANGED << dayNumber, distance, progress, hasStartedRef, canvas,
                        lastTime, sinceTick, nRenders, nTicks, mounted, rafRef,
                    rafPending, nPts, dot, lastDiff >>

\* Timers due at the same instant run in the order they were set: an enter
\* timer due together with an exit timer was set 40 ms before it.
ExitFire ==
    \E tm \in ExitTimers(timers) :
        /\ tm.left = 0
        /\ Due(EnterTimers(timers)) = {}
        /\ AfterCallback(ExitCallback(Comp, tm), "exitTimer")

EnterFire ==
    \E tm \in EnterTimers(timers) :
        /\ tm.left = 0
        /\ AfterCallback(EnterCallback(Comp, tm), "enterTimer")

\* d ms pass: no timer is left behind its deadline, and React has run the
\* pending effects (it runs them within the frame of their render).
Advance(d) ==
    /\ d > 0
    /\ pend = NoPend
    /\ \A t \in timers : t.left >= d
    /\ timers' = {[t EXCEPT !.left = @ - d] : t \in timers}
    /\ sinceTick' = Min(sinceTick + d, DT_CAP_MS)
    /\ sinceChange' = IF sinceChange < 0 THEN -1
                      ELSE Min(sinceChange + d, EXIT_MS + ENTER_MS + 1)
    /\ lastOp' = "clock"
    /\ UNCHANGED << dayNumber, distance, progress, displayRef, targetRef,
                    hasStartedRef, prevDayNumRef, dayTransitionRef, textPhase,
                    displayDay, displayDist, prevDayRef, pend, canvas, lastTime,
                    nRenders, nTicks, fadeDt, mounted, rafRef, rafPending, nPts,
                    dot, lastDiff >>

\* const dt = lastTime ? Math.min((now - lastTime) / 1000, 0.05) : 0.016
TickDt == IF lastTime = 0 THEN DT_FIRST_MS ELSE Min(sinceTick, DT_CAP_MS)

\* variant: a crossfade that is kept when its fade reaches 1
AdvanceFade_KeepAtOne(trans, dt) ==
    IF trans.active /\ LessD(trans.fade, D1)
    THEN LET sum == AddD(trans.fade, DtTimes2p5(dt))
         IN  [trans EXCEPT !.fade = IF LessD(sum, D1) THEN sum ELSE D1]
    ELSE trans

\* trans.fade = Math.min(trans.fade + dt * 2.5, 1);
\* if (trans.fade >= 1) dayTransitionRef.current = null
AdvanceFade(trans, dt) ==
    IF trans.active /\ LessD(trans.fade, D1)
    THEN LET sum == AddD(trans.fade, DtTimes2p5(dt))
             f   == IF LessD(sum, D1) THEN sum ELSE D1
         IN  IF ~LessD(f, D1) THEN NoTrans ELSE [trans EXCEPT !.fade = f]
    ELSE trans

\* variant: easing that never sets displayed on the target
Ease_NoSettle(current, target, dt) ==
    LET diff == target - current
    IN  IF diff < -SNAP_DIFF THEN target
        ELSE current + MulSigned(diff, EaseStep(dt))

\* variant: easing without the snap rule
Ease_NoSnap(current, target, dt) ==
    LET diff == target - current
    IN  IF Abs(diff) < SETTLE_DIFF THEN target
        ELSE current + MulSigned(diff, EaseStep(dt))

\* lines 218-229: the snap rule and the exponential easing
Ease(current, target, dt) ==
    LET diff == target - current
    IN  IF diff < -SNAP_DIFF THEN target
        ELSE IF Abs(diff) < SETTLE_DIFF THEN target
        ELSE current + MulSigned(diff, EaseStep(dt))

\* one animation frame: tick(now)
Tick ==
    /\ lastTime = 0 \/ sinceTick > 0
    /\ \E h \in rafPending :
          LET r == RequestFrame(rafPending, h, nTicks + 2)
          IN  rafRef' = r.rafRef /\ rafPending' = r.rafPending
    /\ dayTransitionRef' = AdvanceFade(dayTransitionRef, TickDt)
    /\ fadeDt' = IF dayTransitionRef.active THEN fadeDt + TickDt ELSE fadeDt
    /\ displayRef' = Ease(displayRef, targetRef, TickDt)
    /\ dot' = DotUpdate(dot, displayRef', dayTransitionRef', nPts, hasStartedRef)
    /\ lastTime' = 1
    /\ sinceTick' = 0
    /\ nTicks' = nTicks + 1
    /\ lastOp' = "frame"
    /\ lastDiff' = targetRef - displayRef
    /\ UNCHANGED << dayNumber, distance, progress, targetRef, hasStartedRef,
                    prevDayNumRef, textPhase, displayDay, displayDist, prevDayRef,
                    timers, pend, canvas, nRenders, sinceChange, mounted, nPts >>

\* The host removes the component: React runs the cleanups of its effects,
\* clearTimeout(exitTimer) (line 287) and cancelAnimationFrame (line 265),
\* and detaches the refs of its elements.
Unmount ==
    /\ mounted
    /\ pend = NoPend
    /\ mounted' = FALSE
    /\ timers' = TextCleanup(Comp).timers
    /\ rafPending' = CancelFrame(rafPending, rafRef)
    /\ dot' = [dot EXCEPT !.shown = FALSE]
    /\ sinceChange' = -1
    /\ lastOp' = "unmount"
    /\ UNCHANGED << dayNumber, distance, progress, displayRef, targetRef,
                    hasStartedRef, prevDayNumRef, dayTransitionRef, textPhase,
                    displayDay, displayDist, prevDayRef, pend, canvas, lastTime,
                    sinceTick, nRenders, nTicks, fadeDt, rafRef, nPts, lastDiff >>

\* ---------------------------------------------------- specifications
\* The label: the host changes dayNumber and distance; the two timers and
\* the effects interleave with the prop updates.  No frame runs (the tick
\* neither reads nor writes the label).
InitLabel == \E d \in Days, x \in Dists : InitWith(d, x, 0)

NextLabel ==
    \/ \E d \in Days, x \in Dists :
          nRenders < MaxRenders /\ Render(d, x, progress)
    \/ FlushEffects
    \/ ExitFire
    \/ EnterFire
    \/ Advance(20)

SpecLabel == InitLabel /\ [][NextLabel]_vars

\* the time to the next timer deadline, or a stalled frame's if no timer is set
ToNextDeadline ==
    IF timers = {} THEN {DT_CAP_MS}
    ELSE {t.left : t \in {u \in timers : \A v \in timers : u.left <= v.left}}

\* The whole component: every prop changes, frames and timers interleave.
Init == \E d \in Days, p \in ProgsBack : InitWith(d, "152.7km", p)

Next ==
    \/ \E d \in Days, x \in Dists, p \in ProgsBack :
          nRenders < MaxMoves /\ Render(d, x, p)
    \/ FlushEffects
    \/ ExitFire
    \/ EnterFire
    \/ \E d \in ToNextDeadline : Advance(d)
    \/ nTicks < MaxTicks /\ Tick

Spec == Init /\ [][Next]_vars

\* The crossfade: the component is on the last day at the start of its
\* path; the host moves it to 0.95, possibly of an earlier day.  40 ms pass
\* at a time and the browser runs a frame whenever it can, so the frames
\* have dt 0.016 (the first), 0.04 or 0.05 (capped).
InitFade == InitWith(MaxDay, "152.7km", 0)

NextFade ==
    \/ \E d \in Days :
          nRenders < MaxFadeMoves /\ Render(d, distance, 950000)
    \/ FlushEffects
    \/ ExitFire
    \/ EnterFire
    \/ Advance(40)
    \/ nTicks < MaxFadeTicks /\ Tick

SpecFade == InitFade /\ [][NextFade]_vars

\* The easing: the day stays; the host moves progress between 0.5 and 0.9
\* and a frame runs every 16 ms (dt = 0.016).
ProgsEase == {500000, 900000}

InitEase == \E p \in ProgsEase : InitWith(1, "152.7km", p)

NextEase ==
    \/ \E p \in ProgsEase :
          nRenders < MaxEaseMoves /\ Render(dayNumber, distance, p)
    \/ FlushEffects
    \/ sinceTick = 0 /\ lastTime # 0 /\ Advance(DT_FIRST_MS)
    \/ nTicks < MaxEaseTicks /\ Tick

SpecEase == InitEase /\ [][NextEase]_vars

\* The end-to-end scenario: the component mounts with the first input and
\* the host supplies the others in order, at any time; once the loop runs,
\* a frame runs every 40 ms.
Scenario == << [day |-> 1, progress |-> 0],
               [day |-> 1, progress |-> 600000],
               [day |-> 2, progress |-> 50000],
               [day |-> 1, progress |-> 950000] >>

InitScen == InitWith(Scenario[1].day, "152.7km", Scenario[1].progress)

NextScen ==
    \/ /\ nRenders + 1 < Len(Scenario)
       /\ LET in == Scenario[nRenders + 2]
          IN  Render(in.day, distance, in.progress)
    \/ FlushEffects
    \/ ExitFire
    \/ EnterFire
    \/ (lastTime = 0 \/ sinceTick = 0) /\ Advance(40)
    \/ nTicks < MaxScenTicks /\ Tick

SpecScen == InitScen /\ [][NextScen]_vars

\* Teardown: the host changes the day, frames and timers run, and at any
\* moment the host may remove the component; time goes on after that.
InitTear == \E d \in Days : InitWith(d, "152.7km", 0)

NextTear ==
    \/ \E d \in Days :
          nRenders < MaxTearMoves /\ Render(d, distance, progress)
    \/ FlushEffects
    \/ ExitFire
    \/ EnterFire
    \/ Advance(40)
    \/ nTicks < MaxTearTicks /\ Tick
    \/ Unmount

SpecTear == InitTear /\ [][NextTear]_vars

\* The lookup: sample tables of 1..MaxPts points; the host supplies progress
\* values inside and outside [0, 1], a new one once the marker has settled
\* on the last; a frame runs every 50 ms.
ProgsWide == {-200000, 2000, 500000, 999000, 1200000}

InitLookup == \E p \in ProgsWide, len \in 1..MaxPts :
                  InitSampled(1, "152.7km", p, len)

NextLookup ==
    \/ \E p \in ProgsWide :
          /\ nRenders < MaxLookupMoves
          /\ displayRef = targetRef
          /\ Render(dayNumber, distance, p)
    \/ FlushEffects
    \/ (lastTime = 0 \/ sinceTick = 0) /\ Advance(DT_CAP_MS)
    \/ nTicks < MaxLookupTicks /\ Tick

SpecLookup == InitLookup /\ [][NextLookup]_vars

\* The first movement: the component mounts at the start of the path and
\* the host moves progress about the thresholds; a frame runs every 50 ms.
ProgsLow == {0, 2000, 5000, 20000}

InitStart == \E p \in {0, 2000} : InitWith(1, "152.7km", p)

NextStart ==
    \/ \E p \in ProgsLow :
          nRenders < MaxStartMoves /\ Render(dayNumber, distance, p)
    \/ FlushEffects
    \/ (lastTime = 0 \/ sinceTick = 0) /\ Advance(DT_CAP_MS)
    \/ nTicks < MaxStartTicks /\ Tick

SpecStart == InitStart /\ [][NextStart]_vars

\* The colours: the component mounts with a progress of the grid 0,
\* 1/MaxGrid, ..., 1 and the marker eases to it, a frame every 50 ms; the
\* draw looks up the track colour of the progress, each frame the two
\* colours of the sample under the marker.
GridStep == ONE \div MaxGrid
ProgGrid == {k * GridStep : k \in 0..MaxGrid}

InitColor == \E p \in ProgGrid : InitWith(1, "152.7km", p)

NextColor ==
    \/ (lastTime = 0 \/ sinceTick = 0) /\ Advance(DT_CAP_MS)
    \/ nTicks < MaxColorTicks /\ Tick

SpecColor == InitColor /\ [][NextColor]_vars

\* ------------------------------------------------------------ claims
\* the phase the label is to be in s ms after a day change that found it idle
TimedPhase(s) ==
    IF s < EXIT_MS THEN "exiting"
    ELSE IF s < EXIT_MS + ENTER_MS THEN "entering"
    ELSE "idle"

\* C1: after a change of dayNumber that finds the phase idle, and with no
\* further prop change, the phase is exiting until 240 ms have passed,
\* entering from 240 ms until 520 ms, and idle from 520 ms on (read at every
\* instant once the timers due at that instant have run).
C1_LabelTiming ==
    (sinceChange >= 0 /\ Due(timers) = {}) => textPhase = TimedPhase(sinceChange)

\* C2: no timer of a superseded label cycle fires: in particular the phase
\* never goes from exiting directly to idle.
C2_NoSupersededTimer ==
    [][~(textPhase = "exiting" /\ textPhase' = "idle")]_vars

\* C3: when the day-backward effect runs with dayNumber lower than the day
\* observed before, displayed and target both become the new progress and
\* the crossfade state becomes {fromColor: the first track colour, fade: 0}.
C3_BackwardTrigger ==
    [][(pend.back /\ ~pend'.back /\ dayNumber < prevDayNumRef)
         => /\ displayRef' = progress
            /\ targetRef' = progress
            /\ dayTransitionRef' =
                 [active |-> TRUE, fromColor |-> <<249, 174, 119>>, fade |-> <<0, 0>>]]_vars

\* C3 witness: after some frames, a day decrease to progress 0.95 has been
\* handled: the crossfade is fresh and displayed sits on the new progress.
C3_Witness ==
    /\ lastOp = "effects"
    /\ nTicks > 0
    /\ progress = 950000
    /\ dayTransitionRef.active /\ dayTransitionRef.fade = <<0, 0>>
    /\ displayRef = progress /\ targetRef = progress

\* C4 as stated: while a crossfade is active its fade is below 1 and the dt
\* of the frames since its creation total less than 0.4 s (at 0.4 s the
\* state is null).
C4_NullAt400 ==
    dayTransitionRef.active =>
        (LessD(dayTransitionRef.fade, D1) /\ fadeDt < 400)

\* C4, amended: a frame that finds a crossfade active either ends it or
\* raises its fade, by dt * 2.5 to within a millionth; a stored state has
\* fade below 1; and the state is null once the dt of the frames since its
\* creation total more than 0.4 s: at exactly 0.4 s the rounded sum may
\* still be below 1, and then the next frame ends the crossfade.
C4_FadeLifecycle ==
    [][/\ (lastOp' = "frame" /\ dayTransitionRef.active) =>
            \/ ~dayTransitionRef'.active
            \/ /\ LessD(dayTransitionRef.fade, dayTransitionRef'.fade)
               /\ Abs(FadeMicro(dayTransitionRef'.fade)
                      - FadeMicro(dayTransitionRef.fade)
                      - 2500 * TickDt) <= 1
       /\ dayTransitionRef'.active =>
            (LessD(dayTransitionRef'.fade, D1) /\ fadeDt' <= 400)]_vars

\* C4 witness: a frame has just ended a crossfade that ten frames, of dt
\* 0.4 s in total, had left active.
C4_Witness ==
    /\ lastOp = "frame"
    /\ ~dayTransitionRef.active
    /\ fadeDt = 440 /\ nTicks >= 11

\* C5: a frame that finds target - displayed < -0.3 leaves displayed equal
\* to target.
C5_SnapRule ==
    [][(lastOp' = "frame" /\ targetRef - displayRef < -SNAP_DIFF)
         => displayRef' = targetRef]_vars

\* C5 witness: displayed had settled on 0.9, the host moved progress to 0.5,
\* and the frame that found the difference -0.4 left displayed at 0.5.
C5_Witness ==
    /\ lastOp = "frame"
    /\ lastDiff = -400000
    /\ displayRef = 500000 /\ targetRef = 500000

\* C6 as stated: from displayed 0 with target 0.5 and frames of dt 0.016,
\* |target - displayed| < 0.001 after 25 frames (0.4 s).
C6_SettledAfter25 ==
    (nRenders = 0 /\ progress = 500000 /\ nTicks >= 25)
        => Abs(targetRef - displayRef) < SETTLE_DIFF

\* C6, amended: from displayed 0 with target 0.5, every frame of dt 0.016
\* strictly raises displayed while it is below the target and never takes it
\* past the target, and |target - displayed| < 0.001 holds after 33 frames
\* (0.528 s) and not before.
C6_EasingConvergence ==
    [][(nRenders' = 0 /\ progress = 500000 /\ lastOp' = "frame") =>
         /\ displayRef < targetRef =>
                (displayRef' > displayRef /\ displayRef' <= targetRef)
         /\ (nTicks' >= 33) <=> (Abs(targetRef - displayRef') < SETTLE_DIFF)]_vars

\* C6 witness: the 33rd frame has left displayed below 0.5 by less than 0.001.
C6_Witness ==
    /\ nRenders = 0 /\ progress = 500000
    /\ lastOp = "frame" /\ nTicks = 33
    /\ displayRef < targetRef
    /\ targetRef - displayRef < SETTLE_DIFF

\* C7 as stated: with the second input displayed (displayed = 0.6) and the
\* third supplied, no frame snaps displayed to the target and no crossfade
\* state exists.
C7_NoSnapAtStep3 ==
    [][(nRenders = 2 /\ displayRef = Scenario[2].progress /\ lastOp' = "frame")
         => (displayRef' # targetRef /\ ~dayTransitionRef'.active)]_vars

\* C7, amended: the third input creates no crossfade state, but it puts the
\* target (0.05) behind displayed: a frame that finds displayed above 0.35
\* snaps it to 0.05, and a frame that finds it between 0.05 and 0.35 eases it
\* down toward 0.05.
C7_ScenarioStep3 ==
    [][/\ nRenders' = 2 => ~dayTransitionRef'.active
       /\ (nRenders = 2 /\ lastOp' = "frame") =>
            /\ targetRef = Scenario[3].progress
            /\ displayRef > targetRef + SNAP_DIFF => displayRef' = targetRef
            /\ (displayRef > targetRef /\ displayRef <= targetRef + SNAP_DIFF)
                  => (displayRef' < displayRef /\ displayRef' >= targetRef)]_vars

\* C7 witness: the frame after the third input found displayed at 0.6, the
\* difference -0.55, and left displayed at 0.05; there is no crossfade.
C7_Witness ==
    /\ nRenders = 2 /\ lastOp = "frame"
    /\ lastDiff = Scenario[3].progress - Scenario[2].progress
    /\ displayRef = Scenario[3].progress
    /\ ~dayTransitionRef.active

\* a crossfade state appears, or an active one starts over
CrossfadeCreated ==
    /\ dayTransitionRef'.active
    /\ \/ ~dayTransitionRef.active
       \/ LessD(dayTransitionRef'.fade, dayTransitionRef.fade)

\* C8: a crossfade is created or restarted only by the effects of a render
\* whose dayNumber is lower than the day observed before, and the observed
\* day follows every day change, up or down.
C8_OnlyDecreaseCreates ==
    [][/\ CrossfadeCreated => (pend.back /\ ~pend'.back /\ dayNumber < prevDayNumRef)
       /\ (pend.back /\ ~pend'.back) => prevDayNumRef' = dayNumber
       /\ ~pend'.back => prevDayNumRef' = dayNumber']_vars

\* C8 witness: the first prop update raised dayNumber (the label is exiting,
\* no frame has run) and its effects left no crossfade state.
C8_Witness ==
    /\ lastOp = "effects"
    /\ nRenders = 1 /\ nTicks = 0
    /\ textPhase = "exiting"
    /\ prevDayNumRef = dayNumber
    /\ ~dayTransitionRef.active

\* C9: displayDay changes only in the step of the exit timer, which takes
\* the phase from exiting to entering and sets displayDay and displayDist
\* to the current dayNumber and distance props.
C9_DisplaySwap ==
    [][/\ displayDay' # displayDay => lastOp' = "exitTimer"
       /\ lastOp' = "exitTimer" =>
            /\ textPhase = "exiting" /\ textPhase' = "entering"
            /\ displayDay' = dayNumber /\ displayDist' = distance]_vars

\* C10: when the effects of a distance-only update run while the phase is
\* idle and dayNumber is the displayed day, displayDist becomes the new
\* distance, the phase stays idle and no timer is set.
C10_DistanceOnly ==
    [][(/\ lastOp' = "effects"
        /\ pend.text /\ ~pend.back
        /\ textPhase = "idle" /\ dayNumber = displayDay)
         => /\ displayDist' = distance
            /\ textPhase' = "idle"
            /\ timers' \subseteq timers]_vars

\* C10 witness: the only prop update so far left the label idle, so it
\* changed the distance alone, and the label shows the new distance.
C10_Witness ==
    /\ lastOp = "effects"
    /\ nRenders = 1
    /\ textPhase = "idle" /\ timers = {}
    /\ displayDay = dayNumber
    /\ displayDist = distance

\* C11: once the component is unmounted no label timer is pending (so none
\* can run and write label state).
C11_TimersCleared ==
    ~mounted => timers = {}

\* C12: while the component is mounted exactly one frame callback is pending
\* and its handle is the stored one; once it is unmounted none is pending
\* and no frame runs.
C12_FrameLoopTeardown ==
    [][/\ mounted' => rafPending' = {rafRef'}
       /\ ~mounted' => rafPending' = {}
       /\ ~mounted => lastOp' # "frame"]_vars

\* C12 witness: the component was unmounted after frames had run, time has
\* passed since, and no frame callback is pending.
C12_Witness ==
    /\ ~mounted
    /\ nTicks > 0 /\ nTicks < MaxTearTicks
    /\ lastOp = "clock" /\ sinceTick > 0
    /\ rafPending = {}

\* the lookup of the spec: floor(clamp(t, 0, 0.998) * (n - 1))
LookupIndex(t, n) == (Min(Max(t, 0), 998000) * (n - 1)) \div ONE

\* C13: the index the track draw used for the current progress and the
\* index a frame used for displayed are floor(clamp(t, 0, 0.998) * (n - 1)),
\* lie in 0..n-1 and, for n > 1, are not the last index; no step but a prop
\* update changes progress.
C13_LookupIndex ==
    /\ [](canvas.drawn =>
            /\ canvas.idx = LookupIndex(progress, nPts)
            /\ canvas.idx \in 0..(nPts - 1)
            /\ nPts > 1 => canvas.idx < nPts - 1)
    /\ []((dot.shown /\ lastOp = "frame") =>
            /\ dot.idx = LookupIndex(displayRef, nPts)
            /\ dot.idx \in 0..(nPts - 1)
            /\ nPts > 1 => dot.idx < nPts - 1)
    /\ [][lastOp' # "render" => progress' = progress]_vars

\* C13 witness: with progress 1.2 and four samples, displayed has passed 1,
\* and the draw and the frame both looked up the sample before the last.
C13_Witness ==
    /\ progress = 1200000 /\ nPts = 4
    /\ lastOp = "frame" /\ dot.shown
    /\ displayRef > ONE
    /\ canvas.drawn /\ canvas.idx = 2 /\ dot.idx = 2

\* C14 as stated: whenever progress is above 0.003 the stroke is drawn and
\* the marker is shown.
C14_ShownAboveDrawThreshold ==
    progress > 3000 => (canvas.drawn /\ dot.shown)

\* C14, amended: the surface is cleared while progress is below 0.003 and
\* the stroke is drawn from 0.003 on; the marker is shown once progress has
\* exceeded 0.01, and stays shown; until then no frame positions or colours
\* it, and from then on every frame puts it on the sample of displayed.
C14_RenderSuppression ==
    /\ [](canvas.drawn <=> progress >= 3000)
    /\ [](~dot.shown => dot = DotAtStart(FALSE))
    /\ []((dot.shown /\ lastOp = "frame") => dot.idx = DotIndex(displayRef, nPts))
    /\ [][dot'.shown <=> (dot.shown \/ progress' > START_PROGRESS)]_vars

\* C14 witness: progress is 0.005 and frames have run: the stroke is drawn,
\* the marker is not shown and was never touched.
C14_Witness ==
    /\ progress = 5000 /\ lastOp = "frame" /\ nTicks > 1
    /\ displayRef > 3000
    /\ canvas.drawn
    /\ ~dot.shown /\ dot = DotAtStart(FALSE)

\* the banded smoothstep reference of the spec: in the window of boundary b
\* the rounded blend of entries b and b + 1 at smoothstep(f), f = (t -
\* (boundary - 0.035)) / 0.07; elsewhere the entry of the band
RefSmooth(f) == 3 * MulFix(f, f) - 2 * MulFix(MulFix(f, f), f)

RefWindows(t) == {b \in 1..3 : /\ t >= b * 250000 - 35000
                               /\ t <= b * 250000 + 35000}

ColorRef(palette, t) ==
    IF RefWindows(t) # {}
    THEN LET b == CHOOSE w \in RefWindows(t) : TRUE
             f == ((t - (b * 250000 - 35000)) * 1000) \div 70
             s == RefSmooth(f)
         IN  [k \in 1..3 |->
                 (palette[b][k] * ONE + (palette[b + 1][k] - palette[b][k]) * s
                    + 500000) \div ONE]
    ELSE palette[1 + Cardinality({b \in 1..3 : t > b * 250000})]

\* the largest difference of two colours in one channel
ColorGap(c1, c2) ==
    Max(Abs(c1[1] - c2[1]), Max(Abs(c1[2] - c2[2]), Abs(c1[3] - c2[3])))

\* C15: every colour the draw and the frames looked up is the one of the
\* banded smoothstep reference; at 0 and at each window start lerpColors
\* gives the lower entry, at each window end and at 1 the upper entry; and
\* one grid step further the track colour differs by 3 at most in a channel.
C15_ColorAt ==
    /\ (canvas.drawn /\ ~dayTransitionRef.active) =>
          /\ canvas.color = ColorRef(TRACK_RGB, canvas.upTo)
          /\ ColorGap(canvas.color,
                      lerpColors(TRACK_RGB, canvas.upTo + GridStep)) <= 3
    /\ (dot.shown /\ lastOp = "frame") =>
          /\ dot.fill = ColorRef(BG_RGB, PtT(dot.idx, nPts))
          /\ dot.stroke = ColorRef(TRACK_RGB, PtT(dot.idx, nPts))
    /\ \A palette \in {TRACK_RGB, BG_RGB} :
          /\ lerpColors(palette, 0) = palette[1]
          /\ lerpColors(palette, ONE) = palette[4]
          /\ \A b \in 1..3 :
                /\ lerpColors(palette, boundaries[b] - HALF_TRANS) = palette[b]
                /\ lerpColors(palette, boundaries[b] + HALF_TRANS) = palette[b + 1]

\* C15 witness: the draw looked up a colour inside the first window that is
\* neither of the two entries, and the marker has arrived in the window too.
C15_Witness ==
    /\ progress = 250000 /\ lastOp = "frame"
    /\ canvas.drawn /\ canvas.color = <<243, 189, 108>>
    /\ dot.shown /\ dot.stroke # TRACK_RGB[1] /\ dot.stroke # TRACK_RGB[2]

\* C16: when no timer and no effect is pending (nothing more will happen
\* without a new prop update) the label is idle and shows the dayNumber and
\* the distance of the props.
C16_LabelSettles ==
    (timers = {} /\ pend = NoPend) =>
        (textPhase = "idle" /\ displayDay = dayNumber /\ displayDist = distance)

\* C17: while the render of a day decrease has stored the new progress in
\* target and the effect that snaps displayed has not run yet, no frame runs.
C17_NoTickBeforeSnap ==
    [][(pend.back /\ dayNumber < prevDayNumRef) => lastOp' # "frame"]_vars

\* the track colour the spec has for the current progress and crossfade
NormalTrackColor == lerpColors(TRACK_RGB, Min(progress, 998000))

FreshTrackColor ==
    IF dayTransitionRef.active
    THEN CrossfadeRGB(dayTransitionRef.fromColor, NormalTrackColor,
                      FadeMicro(dayTransitionRef.fade))
    ELSE NormalTrackColor

\* C18: the track stroke on the canvas has the blend of fromColor and the
\* normal colour at the current fade while a crossfade is active, and the
\* normal colour of the current progress when none is.
C18_TrackColorFresh ==
    canvas.drawn => canvas.color = FreshTrackColor

\* C19: a frame that finds target - displayed >= -0.3 leaves displayed
\* between its old value and the target, nearer to the target unless it was
\* on it, and exactly on the target if it was less than 0.001 away.
C19_NoOvershoot ==
    [][(lastOp' = "frame" /\ targetRef - displayRef >= -SNAP_DIFF) =>
         /\ displayRef' >= Min(displayRef, targetRef)
         /\ displayRef' <= Max(displayRef, targetRef)
         /\ Abs(targetRef - displayRef') <= Abs(targetRef - displayRef)
         /\ displayRef # targetRef =>
               Abs(targetRef - displayRef') < Abs(targetRef - displayRef)
         /\ Abs(targetRef - displayRef) < SETTLE_DIFF => displayRef' = targetRef]_vars

\* C19 witness: a frame found displayed above the target by less than 0.001
\* (it had eased down to it) and left it on the target.
C19_Witness ==
    /\ lastOp = "frame"
    /\ lastDiff < 0 /\ lastDiff > -SETTLE_DIFF
    /\ displayRef = targetRef

\* C20 as stated: only a frame changes displayed or the crossfade state.
C20_OnlyTickMutates ==
    [][(displayRef' # displayRef \/ dayTransitionRef' # dayTransitionRef)
         => lastOp' = "frame"]_vars

\* C20, amended: every prop update stores its progress in target at once;
\* displayed and the crossfade state are changed by the frames and, on a
\* day decrease, by the day-backward effect, and by no other step.
C20_Mutators ==
    [][/\ lastOp' = "render" => targetRef' = progress'
       /\ (displayRef' # displayRef \/ dayTransitionRef' # dayTransitionRef)
            => \/ lastOp' = "frame"
               \/ pend.back /\ ~pend'.back /\ dayNumber < prevDayNumRef]_vars

\* C20 witness: no frame has run, and the effects of a day decrease to
\* progress 0.05 have put displayed there and created the crossfade.
C20_Witness ==
    /\ nTicks = 0 /\ lastOp = "effects"
    /\ progress = 50000 /\ displayRef = 50000
    /\ dayTransitionRef.active

====
